---- MODULE Spec2Model ----
(***************************************************************************)
(* Model of visagist's classification core (src/src/lib/classify.ts):      *)
(* the model lifecycle (loadModel with webgpu -> wasm fallback), single    *)
(* and batch classification (classifyImage, classifyImageBatch) and the    *)
(* decision heuristic (determineMemeClassification).                       *)
(*                                                                         *)
(* Scores are exact values on a grid of hundredths: the integer s stands   *)
(* for the score s/100, so the thresholds 0.8, 0.6 and 0.3 are 80, 60 and  *)
(* 30.  The code only compares scores and subtracts them.                  *)
(***************************************************************************)
EXTENDS Integers, Sequences, FiniteSets, TLC

(***************************************************************************)
(* Bounds of the model.                                                    *)
(***************************************************************************)
MaxScore == 100
MaxLoadCalls == 3
MaxBatch == 2

(***************************************************************************)
(* Labels are sequences of characters, so that toLowerCase and includes    *)
(* are computed as String.prototype does.                                  *)
(***************************************************************************)
LabelMeme == <<"m", "e", "m", "e">>
LabelNotMeme == <<"n", "o", "t", " ", "m", "e", "m", "e">>
LabelMemeCaps == <<"M", "E", "M", "E">>
LabelNotUnderscoreMeme == <<"N", "o", "t", "_", "M", "e", "m", "e">>
LabelCat == <<"c", "a", "t">>

LowerChar(c) ==
  CASE c = "M" -> "m"
    [] c = "E" -> "e"
    [] c = "N" -> "n"
    [] c = "O" -> "o"
    [] c = "T" -> "t"
    [] c = "C" -> "c"
    [] c = "A" -> "a"
    [] OTHER -> c

toLowerCase(s) == [i \in 1..Len(s) |-> LowerChar(s[i])]

includes(s, sub) ==
  \E i \in 0..(Len(s) - Len(sub)) : SubSeq(s, i + 1, i + Len(sub)) = sub

(***************************************************************************)
(* One element of a raw inference result.  "pair" is {label, score};       *)
(* "nolabel" is an object whose label is undefined, for which every        *)
(* `result.label?.toLowerCase().includes(..)` is undefined, hence falsy.   *)
(***************************************************************************)
Pair(l, s) == [kind |-> "pair", label |-> l, score |-> s]
NoLabelEntry(s) == [kind |-> "nolabel", label |-> <<>>, score |-> s]

\* isMemeLabel without the test of line 214 (`!...includes('not')`)
isMemeLabelIgnoresNot(e) ==
  /\ e.kind = "pair"
  /\ includes(toLowerCase(e.label), LabelMeme)

\* the predicate of results.find at lines 212-215
isMemeLabel(e) ==
  /\ e.kind = "pair"
  /\ includes(toLowerCase(e.label), LabelMeme)
  /\ ~includes(toLowerCase(e.label), <<"n", "o", "t">>)

\* the predicate of results.find at lines 217-220
isNotMemeLabel(e) ==
  /\ e.kind = "pair"
  /\ \/ includes(toLowerCase(e.label), LabelNotMeme)
     \/ /\ includes(toLowerCase(e.label), LabelMeme)
        /\ includes(toLowerCase(e.label), <<"n", "o", "t">>)

(***************************************************************************)
(* Array.prototype.find: the index of the first element that satisfies the *)
(* predicate, 0 when there is none (find returns undefined).               *)
(***************************************************************************)
RECURSIVE findFrom(_, _, _)
findFrom(results, i, wantMeme) ==
  IF i > Len(results) THEN 0
  ELSE IF (IF wantMeme THEN isMemeLabel(results[i]) ELSE isNotMemeLabel(results[i]))
       THEN i
  ELSE findFrom(results, i + 1, wantMeme)

find(results, wantMeme) == findFrom(results, 1, wantMeme)

\* `x?.score || 0.0`
scoreOrZero(results, idx) == IF idx > 0 THEN results[idx].score ELSE 0

highConfidenceThreshold == 80
lowConfidenceThreshold == 60
smallMarginThreshold == 30

Max(a, b) == IF a >= b THEN a ELSE b
Abs(a) == IF a < 0 THEN -a ELSE a

\* decide with the high-confidence test written `>` (as the doc comment at
\* line 195 words it) instead of `>=`
decideStrictHigh(memeScore, notMemeScore) ==
  LET winnerScore == Max(memeScore, notMemeScore)
      margin == Abs(memeScore - notMemeScore)
      memeIsWinner == memeScore > notMemeScore
  IN  IF winnerScore > highConfidenceThreshold THEN memeIsWinner
      ELSE IF winnerScore < lowConfidenceThreshold THEN TRUE
      ELSE IF margin < smallMarginThreshold THEN TRUE
      ELSE memeIsWinner

\* decide whose low-confidence branch defaults to not-meme
decideLowDefaultsFalse(memeScore, notMemeScore) ==
  LET winnerScore == Max(memeScore, notMemeScore)
      margin == Abs(memeScore - notMemeScore)
      memeIsWinner == memeScore > notMemeScore
  IN  IF winnerScore >= highConfidenceThreshold THEN memeIsWinner
      ELSE IF winnerScore < lowConfidenceThreshold THEN FALSE
      ELSE IF margin < smallMarginThreshold THEN TRUE
      ELSE memeIsWinner

\* lines 226-246: the three-branch rule on the two resolved scores
decide(memeScore, notMemeScore) ==
  LET winnerScore == Max(memeScore, notMemeScore)
      margin == Abs(memeScore - notMemeScore)
      memeIsWinner == memeScore > notMemeScore
  IN  IF winnerScore >= highConfidenceThreshold THEN memeIsWinner
      ELSE IF winnerScore < lowConfidenceThreshold THEN TRUE
      ELSE IF margin < smallMarginThreshold THEN TRUE
      ELSE memeIsWinner

\* lines 212-223: the two resolved scores, 0 for a class that is missing
resolvedMemeScore(results) == scoreOrZero(results, find(results, TRUE))
resolvedNotMemeScore(results) == scoreOrZero(results, find(results, FALSE))

\* determineMemeClassification that reports the score of the winning class
determineMemeClassificationWinnerConfidence(results) ==
  LET memeScore == resolvedMemeScore(results)
      notMemeScore == resolvedNotMemeScore(results)
  IN  [isMeme |-> decide(memeScore, notMemeScore),
       confidence |-> Max(memeScore, notMemeScore)]

\* lines 209-252
determineMemeClassification(results) ==
  LET memeScore == resolvedMemeScore(results)
      notMemeScore == resolvedNotMemeScore(results)
  IN  [isMeme |-> decide(memeScore, notMemeScore), confidence |-> memeScore]

(***************************************************************************)
(* What the inference backend does with one call of classifier(imageUrl):  *)
(* it throws, resolves to something that is not an array (undefined, an    *)
(* object), resolves to an empty array, or resolves to label/score pairs.  *)
(***************************************************************************)
RawThrows == [kind |-> "throws", items |-> <<>>]
RawNotArray == [kind |-> "notArray", items |-> <<>>]
RawArray(its) == [kind |-> "array", items |-> its]
NoRaw == [kind |-> "none", items |-> <<>>]

(***************************************************************************)
(* The settlements of an inference call explored by the lifecycle          *)
(* specifications: what the backend replied and the elapsed time that      *)
(* performance.now() measured.                                             *)
(***************************************************************************)
Settlement(raw, elapsed) == [raw |-> raw, elapsed |-> elapsed]

Settlements ==
  { Settlement(RawThrows, 5),
    Settlement(RawNotArray, 4),
    Settlement(RawArray(<<>>), 3),
    Settlement(RawArray(<<Pair(LabelMeme, 82), Pair(LabelNotMeme, 18)>>), 12),
    Settlement(RawArray(<<Pair(LabelNotMeme, 100)>>), 7) }

Images == {"a.png", "b.png"}

(***************************************************************************)
(* ClassificationResult, and the safe default of lines 132-136, 163-167.   *)
(***************************************************************************)
Result(m, c, t) == [isMeme |-> m, confidence |-> c, inferenceTimeMs |-> t]
NoResult == [isMeme |-> FALSE, confidence |-> -1, inferenceTimeMs |-> -1]
safeDefault(t) == Result(FALSE, 0, t)

\* classifyImageSettle whose validation forgets the empty array
\* (`if (!Array.isArray(results))` only)
classifyImageSettleNoEmptyCheck(raw, elapsed) ==
  IF raw.kind = "throws"
  THEN [path |-> "caught", result |-> safeDefault(elapsed)]
  ELSE IF raw.kind # "array"
  THEN [path |-> "invalid", result |-> safeDefault(elapsed)]
  ELSE LET d == determineMemeClassification(raw.items)
       IN  [path |-> "decided",
            result |-> Result(d.isMeme, d.confidence, elapsed)]

(***************************************************************************)
(* Lines 125-168 of classifyImage, from the settling of the inference call *)
(* on: the result returned and the path that produced it ("caught" for the *)
(* catch block, "invalid" for the validation at 130, "decided" for the     *)
(* decision algorithm).                                                    *)
(***************************************************************************)
classifyImageSettle(raw, elapsed) ==
  IF raw.kind = "throws"
  THEN [path |-> "caught", result |-> safeDefault(elapsed)]
  ELSE IF raw.kind # "array" \/ Len(raw.items) = 0
  THEN [path |-> "invalid", result |-> safeDefault(elapsed)]
  ELSE LET d == determineMemeClassification(raw.items)
       IN  [path |-> "decided",
            result |-> Result(d.isMeme, d.confidence, elapsed)]

VARIABLES
  classifier,    \* the shared handle (line 14)
  modelStatus,   \* line 15
  acquisitions,  \* number of pipeline() calls made so far
  numLoads,      \* number of loadModel() calls made so far
  load,          \* the loadModel() call of each caller
  single,        \* the classifyImage() call of the caller
  batch,         \* the classifyImageBatch() call of the caller
  dRaw,          \* SpecDecide: the argument of determineMemeClassification
  dOut,          \* SpecDecide: what it returned
  observed,      \* what the last getModelStatus() / isModelReady() returned
  entries,       \* App: the results signal, newest entry first
  proc           \* App: the processFile() call of each file

vars == <<classifier, modelStatus, acquisitions, numLoads, load, single, batch,
          dRaw, dOut, observed, entries, proc>>

LoadCallers == {1, 2}

NoHandle == [device |-> "none", id |-> 0]
Handle(d, n) == [device |-> d, id |-> n]

\* a loadModel() call: where it is, which call it is (first, second, ..), what
\* it did so far, the handle it found, the number of its last acquisition
IdleLoad ==
  [pc |-> "idle", call |-> 0, log |-> <<>>, overlaps |-> FALSE,
   handleAtStart |-> NoHandle,
   acquired |-> 0]
\* a classifyImage() call: the handle it read, the reply it got, its outcome
IdleSingle ==
  [pc |-> "idle", imageUrl |-> "", handle |-> NoHandle, inferCalls |-> 0,
   raw |-> NoRaw, path |-> "", result |-> NoResult, error |-> ""]
\* a classifyImageBatch() call: one classifyImage() call per element (slots),
\* the order in which they settled, and its outcome
IdleBatch ==
  [pc |-> "idle", imageUrls |-> <<>>, handle |-> NoHandle, inferCalls |-> 0,
   slots |-> <<>>, settled |-> <<>>, results |-> <<>>, error |-> ""]

NoDecision == [isMeme |-> FALSE, confidence |-> -1]

\* nothing read yet, or the caller has made another call since
NoObservation == [call |-> "", status |-> "", ready |-> FALSE]

\* App: the files dropped on the page; each is processed once
Files == {"f1", "f2"}

\* App: a processFile() call: where it is, the status of the entry it put
\* into the list at line 93, what isModelReady() returned at line 96, and the
\* classifyImage() call it made
IdleProc == [pc |-> "idle", created |-> "", ready |-> FALSE, call |-> IdleSingle]

Init ==
  /\ classifier = NoHandle
  /\ modelStatus = "loading"
  /\ acquisitions = 0
  /\ numLoads = 0
  /\ load = [c \in LoadCallers |-> IdleLoad]
  /\ single = IdleSingle
  /\ batch = IdleBatch
  /\ dRaw = <<>>
  /\ dOut = NoDecision
  /\ observed = NoObservation
  /\ entries = <<>>
  /\ proc = [f \in Files |-> IdleProc]

LoadInFlight(c) == load[c].pc \in {"webgpu", "wasm"}

\* the call caller c starts now starts while another call's acquisition is
\* in flight
StartsDuringLoad(c) == \E d \in LoadCallers \ {c} : LoadInFlight(d)

\* loadModel without the early return of lines 25-29
loadModelNoEarlyReturn(c) ==
  /\ ~LoadInFlight(c)
  /\ numLoads < MaxLoadCalls
  /\ numLoads' = numLoads + 1
  /\ modelStatus' = "downloading"
  /\ acquisitions' = acquisitions + 1
  /\ load' = [load EXCEPT ![c] =
       [pc |-> "webgpu", call |-> numLoads + 1,
                log |-> <<"downloading", "try webgpu">>,
        overlaps |-> StartsDuringLoad(c),
        handleAtStart |-> classifier, acquired |-> acquisitions + 1]]
  /\ UNCHANGED <<classifier, single, batch, dRaw, dOut, observed, entries, proc>>

(***************************************************************************)
(* loadModel, lines 22-41: up to the first await.  With a handle set it    *)
(* sets the status to ready and returns; otherwise it sets the status to   *)
(* downloading and calls pipeline() for the webgpu device.                 *)
(***************************************************************************)
loadModel(c) ==
  /\ ~LoadInFlight(c)
  /\ numLoads < MaxLoadCalls
  /\ numLoads' = numLoads + 1
  /\ IF classifier # NoHandle
     THEN /\ modelStatus' = "ready"
          /\ load' = [load EXCEPT ![c] =
               [pc |-> "returned", call |-> numLoads + 1, log |-> <<"return">>,
                overlaps |-> StartsDuringLoad(c),
                handleAtStart |-> classifier, acquired |-> 0]]
          /\ UNCHANGED <<classifier, acquisitions>>
     ELSE /\ modelStatus' = "downloading"
          /\ acquisitions' = acquisitions + 1
          /\ load' = [load EXCEPT ![c] =
               [pc |-> "webgpu", call |-> numLoads + 1,
                log |-> <<"downloading", "try webgpu">>,
                overlaps |-> StartsDuringLoad(c),
                handleAtStart |-> NoHandle, acquired |-> acquisitions + 1]]
          /\ UNCHANGED classifier
  /\ UNCHANGED <<single, batch, dRaw, dOut, observed, entries, proc>>

\* webgpuResolves that stores the handle and forgets `modelStatus = 'ready'`
webgpuResolvesNoStatus(c) ==
  /\ load[c].pc = "webgpu"
  /\ classifier' = Handle("webgpu", load[c].acquired)
  /\ load' = [load EXCEPT ![c].pc = "returned",
                          ![c].log = @ \o <<"store", "ready", "return">>]
  /\ UNCHANGED <<modelStatus, acquisitions, numLoads, single, batch, dRaw, dOut,
                 observed, entries, proc>>

\* lines 38-43: the webgpu pipeline() resolves
webgpuResolves(c) ==
  /\ load[c].pc = "webgpu"
  /\ classifier' = Handle("webgpu", load[c].acquired)
  /\ modelStatus' = "ready"
  /\ load' = [load EXCEPT ![c].pc = "returned",
                          ![c].log = @ \o <<"store", "ready", "return">>]
  /\ UNCHANGED <<acquisitions, numLoads, single, batch, dRaw, dOut, observed, entries, proc>>

\* webgpuRejects without the fallback: the webgpu failure is fatal
webgpuRejectsNoFallback(c) ==
  /\ load[c].pc = "webgpu"
  /\ modelStatus' = "error"
  /\ load' = [load EXCEPT ![c].pc = "threw",
                          ![c].log = @ \o <<"webgpu failed", "error", "throw">>]
  /\ UNCHANGED <<classifier, acquisitions, numLoads, single, batch, dRaw, dOut, observed, entries, proc>>

\* lines 44-52: the webgpu pipeline() rejects, the wasm pipeline() is called
webgpuRejects(c) ==
  /\ load[c].pc = "webgpu"
  /\ acquisitions' = acquisitions + 1
  /\ load' = [load EXCEPT ![c].pc = "wasm",
                          ![c].acquired = acquisitions + 1,
                          ![c].log = @ \o <<"webgpu failed", "try wasm">>]
  /\ UNCHANGED <<classifier, modelStatus, numLoads, single, batch, dRaw, dOut, observed, entries, proc>>

\* lines 49-54: the wasm pipeline() resolves
wasmResolves(c) ==
  /\ load[c].pc = "wasm"
  /\ classifier' = Handle("wasm", load[c].acquired)
  /\ modelStatus' = "ready"
  /\ load' = [load EXCEPT ![c].pc = "returned",
                          ![c].log = @ \o <<"store", "ready", "return">>]
  /\ UNCHANGED <<acquisitions, numLoads, single, batch, dRaw, dOut, observed, entries, proc>>

\* wasmRejects whose catch block forgets `modelStatus = 'error'`
wasmRejectsNoStatus(c) ==
  /\ load[c].pc = "wasm"
  /\ load' = [load EXCEPT ![c].pc = "threw",
                          ![c].log = @ \o <<"wasm failed", "error", "throw">>]
  /\ UNCHANGED <<classifier, modelStatus, acquisitions, numLoads, single, batch,
                 dRaw, dOut, observed, entries, proc>>

\* lines 56-62: the wasm pipeline() rejects, the outer catch runs
wasmRejects(c) ==
  /\ load[c].pc = "wasm"
  /\ modelStatus' = "error"
  /\ load' = [load EXCEPT ![c].pc = "threw",
                          ![c].log = @ \o <<"wasm failed", "error", "throw">>]
  /\ UNCHANGED <<classifier, acquisitions, numLoads, single, batch, dRaw, dOut, observed, entries, proc>>


\* classifyImageEnter that answers a missing handle with the safe default
classifyImageEnterSwallows(imageUrl) ==
  IF classifier = NoHandle
  THEN [pc |-> "returned", imageUrl |-> imageUrl, handle |-> classifier,
        inferCalls |-> 0, raw |-> NoRaw, path |-> "caught",
        result |-> safeDefault(0), error |-> ""]
  ELSE [pc |-> "awaiting", imageUrl |-> imageUrl, handle |-> classifier,
        inferCalls |-> 1, raw |-> NoRaw, path |-> "", result |-> NoResult,
        error |-> ""]

(***************************************************************************)
(* classifyImage, lines 116-126: up to the await.  It throws when no       *)
(* handle is set, otherwise it calls classifier(imageUrl).  The same entry *)
(* runs for every element of a batch (line 83).                            *)
(***************************************************************************)
classifyImageEnter(imageUrl) ==
  IF classifier = NoHandle
  THEN [pc |-> "threw", imageUrl |-> imageUrl, handle |-> classifier,
        inferCalls |-> 0, raw |-> NoRaw, path |-> "", result |-> NoResult,
        error |-> "model not loaded"]
  ELSE [pc |-> "awaiting", imageUrl |-> imageUrl, handle |-> classifier,
        inferCalls |-> 1, raw |-> NoRaw, path |-> "", result |-> NoResult,
        error |-> ""]

\* classifyImageLeave without the catch block: a throwing inference call
\* rejects the promise of classifyImage
classifyImageLeaveNoCatch(call, raw, elapsed) ==
  LET out == classifyImageSettle(raw, elapsed)
  IN  IF raw.kind = "throws"
      THEN [call EXCEPT !.pc = "threw", !.raw = raw, !.error = "inference failed"]
      ELSE [call EXCEPT !.pc = "returned", !.raw = raw,
                        !.path = out.path, !.result = out.result]

\* classifyImageLeave whose confidence depends on the backend that was
\* loaded: under the wasm handle it reports the score of the winning class
classifyImageLeaveByBackend(call, raw, elapsed) ==
  LET out == classifyImageSettle(raw, elapsed)
      w == determineMemeClassificationWinnerConfidence(raw.items)
  IN  IF out.path = "decided" /\ call.handle.device = "wasm"
      THEN [call EXCEPT !.pc = "returned", !.raw = raw, !.path = out.path,
                        !.result = Result(w.isMeme, w.confidence, elapsed)]
      ELSE [call EXCEPT !.pc = "returned", !.raw = raw,
                        !.path = out.path, !.result = out.result]

\* lines 125-168: the inference call settles with raw after elapsed ms
classifyImageLeave(call, raw, elapsed) ==
  LET out == classifyImageSettle(raw, elapsed)
  IN  [call EXCEPT !.pc = "returned", !.raw = raw,
                   !.path = out.path, !.result = out.result]

classifyImage(imageUrl) ==
  /\ single.pc # "awaiting"
  /\ batch.pc # "awaiting"
  /\ single' = classifyImageEnter(imageUrl)
  /\ batch' = IdleBatch
  /\ observed' = NoObservation
  /\ UNCHANGED <<classifier, modelStatus, acquisitions, numLoads, load, dRaw, dOut,
                 entries, proc>>

\* inferenceSettles in which a failed inference marks the model as broken
inferenceSettlesMarksError(st) ==
  /\ single.pc = "awaiting"
  /\ single' = classifyImageLeave(single, st.raw, st.elapsed)
  /\ modelStatus' = IF st.raw.kind = "throws" THEN "error" ELSE modelStatus
  /\ UNCHANGED <<classifier, acquisitions, numLoads, load, batch, dRaw, dOut,
                 observed, entries, proc>>

\* the inference call of the single classifyImage() call settles
inferenceSettles(st) ==
  /\ single.pc = "awaiting"
  /\ single' = classifyImageLeave(single, st.raw, st.elapsed)
  /\ UNCHANGED <<classifier, modelStatus, acquisitions, numLoads, load, batch, dRaw, dOut, observed, entries, proc>>

\* the values in the order in which the promises settled
promiseAllBySettling(b) ==
  [i \in 1..Len(b.slots) |-> b.slots[b.settled[i]].result]

(***************************************************************************)
(* Promise.all (line 84): the values of the promises in the order of the   *)
(* promises, whatever the order in which they settled.                     *)
(***************************************************************************)
promiseAll(b) == [i \in 1..Len(b.slots) |-> b.slots[i].result]

\* lines 103-107
batchDefaults(imageUrls) == [i \in 1..Len(imageUrls) |-> safeDefault(0)]

\* classifyImageBatchEnter with the empty-input test before the handle test
classifyImageBatchEnterEmptyFirst(imageUrls) ==
  IF Len(imageUrls) = 0
  THEN [pc |-> "returned", imageUrls |-> imageUrls, handle |-> classifier,
        inferCalls |-> 0, slots |-> <<>>, settled |-> <<>>, results |-> <<>>,
        error |-> ""]
  ELSE IF classifier = NoHandle
  THEN [pc |-> "threw", imageUrls |-> imageUrls, handle |-> classifier,
        inferCalls |-> 0, slots |-> <<>>, settled |-> <<>>, results |-> <<>>,
        error |-> "model not loaded"]
  ELSE LET slots == [i \in 1..Len(imageUrls) |-> classifyImageEnter(imageUrls[i])]
       IN  [pc |-> "awaiting", imageUrls |-> imageUrls, handle |-> classifier,
            inferCalls |-> Len(SelectSeq(slots, LAMBDA sl : sl.inferCalls = 1)),
            slots |-> slots, settled |-> <<>>, results |-> <<>>, error |-> ""]

\* classifyImageBatchEnter that answers a missing handle with one safe
\* default per input, as the catch block of lines 96-108 does
classifyImageBatchEnterDefaults(imageUrls) ==
  IF classifier = NoHandle
  THEN [pc |-> "returned", imageUrls |-> imageUrls, handle |-> classifier,
        inferCalls |-> 0, slots |-> <<>>, settled |-> <<>>,
        results |-> batchDefaults(imageUrls), error |-> ""]
  ELSE IF Len(imageUrls) = 0
  THEN [pc |-> "returned", imageUrls |-> imageUrls, handle |-> classifier,
        inferCalls |-> 0, slots |-> <<>>, settled |-> <<>>, results |-> <<>>,
        error |-> ""]
  ELSE LET slots == [i \in 1..Len(imageUrls) |-> classifyImageEnter(imageUrls[i])]
       IN  [pc |-> "awaiting", imageUrls |-> imageUrls, handle |-> classifier,
            inferCalls |-> Len(SelectSeq(slots, LAMBDA sl : sl.inferCalls = 1)),
            slots |-> slots, settled |-> <<>>, results |-> <<>>, error |-> ""]

(***************************************************************************)
(* classifyImageBatch, lines 69-84: up to the await.  It throws when no    *)
(* handle is set, returns [] for an empty input, and otherwise enters      *)
(* classifyImage for every url before it awaits.                           *)
(***************************************************************************)
classifyImageBatchEnter(imageUrls) ==
  IF classifier = NoHandle
  THEN [pc |-> "threw", imageUrls |-> imageUrls, handle |-> classifier,
        inferCalls |-> 0, slots |-> <<>>, settled |-> <<>>, results |-> <<>>,
        error |-> "model not loaded"]
  ELSE IF Len(imageUrls) = 0
  THEN [pc |-> "returned", imageUrls |-> imageUrls, handle |-> classifier,
        inferCalls |-> 0, slots |-> <<>>, settled |-> <<>>, results |-> <<>>,
        error |-> ""]
  ELSE LET slots == [i \in 1..Len(imageUrls) |-> classifyImageEnter(imageUrls[i])]
       IN  [pc |-> "awaiting", imageUrls |-> imageUrls, handle |-> classifier,
            inferCalls |-> Len(SelectSeq(slots, LAMBDA sl : sl.inferCalls = 1)),
            slots |-> slots, settled |-> <<>>, results |-> <<>>, error |-> ""]

classifyImageBatch(imageUrls) ==
  /\ batch.pc # "awaiting"
  /\ single.pc # "awaiting"
  /\ batch' = classifyImageBatchEnter(imageUrls)
  /\ single' = IdleSingle
  /\ observed' = NoObservation
  /\ UNCHANGED <<classifier, modelStatus, acquisitions, numLoads, load, dRaw, dOut,
                 entries, proc>>

\* the inference call of element i of the batch settles
batchInferenceSettles(i, st) ==
  /\ batch.pc = "awaiting"
  /\ i \in 1..Len(batch.slots)
  /\ batch.slots[i].pc = "awaiting"
  /\ batch' = [batch EXCEPT !.slots[i] = classifyImageLeave(@, st.raw, st.elapsed),
                            !.settled = Append(@, i)]
  /\ UNCHANGED <<classifier, modelStatus, acquisitions, numLoads, load, single, dRaw, dOut, observed, entries, proc>>

\* lines 84-108: Promise.all settles; the catch block runs if an element threw
batchReturns ==
  /\ batch.pc = "awaiting"
  /\ \A i \in 1..Len(batch.slots) : batch.slots[i].pc # "awaiting"
  /\ batch' = [batch EXCEPT
       !.pc = "returned",
       !.results = IF \E i \in 1..Len(batch.slots) : batch.slots[i].pc = "threw"
                   THEN batchDefaults(batch.imageUrls)
                   ELSE promiseAll(batch)]
  /\ UNCHANGED <<classifier, modelStatus, acquisitions, numLoads, load, single, dRaw, dOut, observed, entries, proc>>

\* lines 175-178: the value getModelStatus() returns
getModelStatus == modelStatus

\* lines 183-187: the value isModelReady() returns
isModelReady == classifier # NoHandle /\ modelStatus = "ready"

\* the caller, between two classification calls, calls getModelStatus()
callsGetModelStatus ==
  /\ single.pc # "awaiting"
  /\ batch.pc # "awaiting"
  /\ observed' = [call |-> "getModelStatus", status |-> getModelStatus,
                  ready |-> FALSE]
  /\ single' = IdleSingle
  /\ batch' = IdleBatch
  /\ UNCHANGED <<classifier, modelStatus, acquisitions, numLoads, load, dRaw, dOut,
                 entries, proc>>

\* the caller, between two classification calls, calls isModelReady()
callsIsModelReady ==
  /\ single.pc # "awaiting"
  /\ batch.pc # "awaiting"
  /\ observed' = [call |-> "isModelReady", status |-> "", ready |-> isModelReady]
  /\ single' = IdleSingle
  /\ batch' = IdleBatch
  /\ UNCHANGED <<classifier, modelStatus, acquisitions, numLoads, load, dRaw, dOut,
                 entries, proc>>

\* the input sequences of a batch: every sequence of at most MaxBatch images
RECURSIVE SeqsUpTo(_, _)
SeqsUpTo(S, n) ==
  IF n = 0 THEN {<<>>}
  ELSE LET shorter == SeqsUpTo(S, n - 1)
       IN  shorter \cup {Append(q, x) : q \in shorter, x \in S}

BatchInputs == SeqsUpTo(Images, MaxBatch)

(***************************************************************************)
(* Spec: loadModel() calls do not overlap (the application calls it once,  *)
(* on mount); one caller makes them all, one after the other.              *)
(* SpecOverlap: a loadModel() call of one caller may start while the call  *)
(* of another is awaiting its pipeline().                                  *)
(***************************************************************************)
NoLoadInFlight == \A c \in LoadCallers : ~LoadInFlight(c)

SerialCaller == CHOOSE c \in LoadCallers : \A d \in LoadCallers : c <= d

loadModelAlone(c) == c = SerialCaller /\ NoLoadInFlight /\ loadModel(c)

Next ==
  \/ \E c \in LoadCallers : loadModelAlone(c)
  \/ \E c \in LoadCallers : webgpuResolves(c)
  \/ \E c \in LoadCallers : webgpuRejects(c)
  \/ \E c \in LoadCallers : wasmResolves(c)
  \/ \E c \in LoadCallers : wasmRejects(c)
  \/ \E u \in Images : classifyImage(u)
  \/ \E st \in Settlements : inferenceSettles(st)
  \/ \E urls \in BatchInputs : classifyImageBatch(urls)
  \/ \E i \in 1..MaxBatch, st \in Settlements : batchInferenceSettles(i, st)
  \/ batchReturns
  \/ callsGetModelStatus
  \/ callsIsModelReady

NextOverlap ==
  \/ \E c \in LoadCallers : loadModel(c)
  \/ \E c \in LoadCallers : webgpuResolves(c)
  \/ \E c \in LoadCallers : webgpuRejects(c)
  \/ \E c \in LoadCallers : wasmResolves(c)
  \/ \E c \in LoadCallers : wasmRejects(c)
  \/ \E u \in Images : classifyImage(u)
  \/ \E st \in Settlements : inferenceSettles(st)

Spec == Init /\ [][Next]_vars
SpecOverlap == Init /\ [][NextOverlap]_vars

(***************************************************************************)
(* App.tsx.  The page loads the model once when it mounts and classifies   *)
(* each dropped file with processFile; the entries of the results signal   *)
(* carry the id, the status, the decision, the measured time and the error *)
(* text (the file name, the object URL and the timestamp are left out).    *)
(* The id (Date.now() and Math.random()) is taken to be unique per file.   *)
(***************************************************************************)
\* App.tsx lines 82-91
loadingResult(f) ==
  [id |-> f, status |-> "loading", isMeme |-> FALSE, confidence |-> 0,
   inferenceTimeMs |-> 0, error |-> ""]

\* App.tsx lines 97-101 and 137-141: prev.map(..) to the error status
mapToError(prev, id, message) ==
  [i \in 1..Len(prev) |->
     IF prev[i].id = id
     THEN [prev[i] EXCEPT !.status = "error", !.error = message]
     ELSE prev[i]]

\* App.tsx lines 111-121: prev.map(..) to the completed status
mapToCompleted(prev, id, result, processingTime) ==
  [i \in 1..Len(prev) |->
     IF prev[i].id = id
     THEN [prev[i] EXCEPT !.status = "completed", !.isMeme = result.isMeme,
                          !.confidence = result.confidence,
                          !.inferenceTimeMs = processingTime]
     ELSE prev[i]]

\* App.tsx line 94: totalProcessed, one per processFile() call
totalProcessed == Cardinality({f \in Files : proc[f].pc # "idle"})

\* App.tsx lines 43-53: onMount calls initializeModel, which calls loadModel
onMount ==
  /\ numLoads = 0
  /\ loadModel(SerialCaller)

(***************************************************************************)
(* App.tsx processFile, lines 77-108: up to the await.  The loading entry  *)
(* goes to the front of the list; with the model not ready the entry is    *)
(* mapped to error and the call returns, otherwise classifyImage is        *)
(* called (a rejection of it is handled by the catch of lines 131-143).    *)
(***************************************************************************)
processFile(f) ==
  /\ proc[f].pc = "idle"
  /\ LET added == <<loadingResult(f)>> \o entries
         call == classifyImageEnter(f)
     IN  IF ~isModelReady
         THEN /\ entries' = mapToError(added, f, "neural network not initialized")
              /\ proc' = [proc EXCEPT ![f] =
                   [pc |-> "done", created |-> added[1].status, ready |-> FALSE,
                    call |-> IdleSingle]]
         ELSE IF call.pc = "threw"
         THEN /\ entries' = mapToError(added, f, call.error)
              /\ proc' = [proc EXCEPT ![f] =
                   [pc |-> "done", created |-> added[1].status, ready |-> TRUE,
                    call |-> call]]
         ELSE /\ entries' = added
              /\ proc' = [proc EXCEPT ![f] =
                   [pc |-> "awaiting", created |-> added[1].status, ready |-> TRUE,
                    call |-> call]]
  /\ UNCHANGED <<classifier, modelStatus, acquisitions, numLoads, load, single, batch,
                 dRaw, dOut, observed>>

\* processFileResumes that puts a missing entry back into the list
processFileResumesReAdds(f, st) ==
  /\ proc[f].pc = "awaiting"
  /\ LET call == classifyImageLeave(proc[f].call, st.raw, st.elapsed)
         prev == IF \E i \in 1..Len(entries) : entries[i].id = f
                 THEN entries
                 ELSE <<loadingResult(f)>> \o entries
     IN  /\ proc' = [proc EXCEPT ![f].pc = "done", ![f].call = call]
         /\ entries' = IF call.pc = "threw"
                       THEN mapToError(prev, f, call.error)
                       ELSE mapToCompleted(prev, f, call.result, st.elapsed)
  /\ UNCHANGED <<classifier, modelStatus, acquisitions, numLoads, load, single, batch,
                 dRaw, dOut, observed>>

(***************************************************************************)
(* App.tsx processFile, lines 106-143: the inference call of file f        *)
(* settles, classifyImage returns or throws, and the entry with the id of  *)
(* the call, if the list still holds it, is mapped to completed or error.  *)
(***************************************************************************)
processFileResumes(f, st) ==
  /\ proc[f].pc = "awaiting"
  /\ LET call == classifyImageLeave(proc[f].call, st.raw, st.elapsed)
     IN  /\ proc' = [proc EXCEPT ![f].pc = "done", ![f].call = call]
         /\ entries' = IF call.pc = "threw"
                       THEN mapToError(entries, f, call.error)
                       ELSE mapToCompleted(entries, f, call.result, st.elapsed)
  /\ UNCHANGED <<classifier, modelStatus, acquisitions, numLoads, load, single, batch,
                 dRaw, dOut, observed>>

\* App.tsx lines 163-167; the button is shown while the list is not empty
clearResults ==
  /\ Len(entries) > 0
  /\ entries' = <<>>
  /\ UNCHANGED <<classifier, modelStatus, acquisitions, numLoads, load, single, batch,
                 dRaw, dOut, observed, proc>>

NextUI ==
  \/ onMount
  \/ \E c \in LoadCallers : webgpuResolves(c)
  \/ \E c \in LoadCallers : webgpuRejects(c)
  \/ \E c \in LoadCallers : wasmResolves(c)
  \/ \E c \in LoadCallers : wasmRejects(c)
  \/ \E f \in Files : processFile(f)
  \/ \E f \in Files, st \in Settlements : processFileResumes(f, st)
  \/ clearResults

\* every pipeline() call and every inference call settles
SpecUI ==
  /\ Init
  /\ [][NextUI]_vars
  /\ \A f \in Files : WF_vars(\E st \in Settlements : processFileResumes(f, st))

(***************************************************************************)
(* SpecDecide: determineMemeClassification as a pure function, applied to  *)
(* a raw result with the two classes and every pair of scores of the grid. *)
(***************************************************************************)
ScoreGrid == 0..MaxScore

TwoClass(memeScore, notMemeScore) ==
  <<Pair(LabelMeme, memeScore), Pair(LabelNotMeme, notMemeScore)>>

DecideInputs == {TwoClass(m, n) : m \in ScoreGrid, n \in ScoreGrid}

InitDecide ==
  /\ classifier = NoHandle
  /\ modelStatus = "loading"
  /\ acquisitions = 0
  /\ numLoads = 0
  /\ load = [c \in LoadCallers |-> IdleLoad]
  /\ single = IdleSingle
  /\ batch = IdleBatch
  /\ dRaw \in DecideInputs
  /\ dOut = NoDecision
  /\ observed = NoObservation
  /\ entries = <<>>
  /\ proc = [f \in Files |-> IdleProc]

decides ==
  /\ dOut = NoDecision
  /\ dOut' = determineMemeClassification(dRaw)
  /\ UNCHANGED <<classifier, modelStatus, acquisitions, numLoads, load, single,
                 batch, dRaw, observed, entries, proc>>

NextDecide == decides

SpecDecide == InitDecide /\ [][NextDecide]_vars

(***************************************************************************)
(* SpecLabels: determineMemeClassification applied to raw results of one   *)
(* or two elements whose labels vary (either class may be missing, the     *)
(* label may be undefined, upper case, or of another class), with scores   *)
(* around the thresholds.                                                  *)
(***************************************************************************)
Labels ==
  {LabelMeme, LabelNotMeme, LabelMemeCaps, LabelNotUnderscoreMeme, LabelCat}

LabelScores == {0, 8, 30, 45, 59, 60, 79, 80, 100}

LabelEntries ==
  {Pair(l, s) : l \in Labels, s \in LabelScores}
    \cup {NoLabelEntry(s) : s \in LabelScores}

LabelInputs ==
  {<<e>> : e \in LabelEntries} \cup {<<e, f>> : e \in LabelEntries, f \in LabelEntries}

InitLabels ==
  /\ classifier = NoHandle
  /\ modelStatus = "loading"
  /\ acquisitions = 0
  /\ numLoads = 0
  /\ load = [c \in LoadCallers |-> IdleLoad]
  /\ single = IdleSingle
  /\ batch = IdleBatch
  /\ dRaw \in LabelInputs
  /\ dOut = NoDecision
  /\ observed = NoObservation
  /\ entries = <<>>
  /\ proc = [f \in Files |-> IdleProc]

SpecLabels == InitLabels /\ [][NextDecide]_vars

(***************************************************************************)
(*                              The claims                                 *)
(***************************************************************************)

IsClassificationResult(r) ==
  /\ r.isMeme \in BOOLEAN
  /\ r.confidence \in 0..MaxScore
  /\ r.inferenceTimeMs >= 0

SoftFailure(raw) ==
  \/ raw.kind = "throws"
  \/ raw.kind = "notArray"
  \/ raw.kind = "array" /\ raw.items = <<>>

(***************************************************************************)
(* C1: once the handle is set classifyImage is total: a call that read a   *)
(* handle never throws, whatever the inference call did (threw, resolved   *)
(* to a non-array, to an empty array or to label/score pairs) it returns a *)
(* ClassificationResult, and when the inference call threw or resolved to  *)
(* a non-array or an empty array the result is isMeme = false,             *)
(* confidence = 0.                                                         *)
(***************************************************************************)
C1_ClassifyTotal ==
  /\ single.pc = "threw" => single.handle = NoHandle /\ single.raw = NoRaw
  /\ single.pc = "returned" =>
       /\ single.handle # NoHandle
       /\ single.raw.kind \in {"throws", "notArray", "array"}
       /\ IsClassificationResult(single.result)
       /\ SoftFailure(single.raw) =>
            single.result.isMeme = FALSE /\ single.result.confidence = 0

C1_Witness ==
  /\ single.pc = "returned"
  /\ single.raw = RawArray(<<>>)
  /\ single.result = safeDefault(3)

(***************************************************************************)
(* C2: for every pair of scores of the grid, isMeme follows the three      *)
(* branches in order: winner >= 0.8 gives memeIsWinner; else winner < 0.6  *)
(* gives true; else margin < 0.3 gives true and margin >= 0.3 gives        *)
(* memeIsWinner.  winner = 0.8 is in branch 1, winner = 0.6 in branch 3,   *)
(* and margin = 0.3 in branch 3 trusts the winner.                         *)
(***************************************************************************)
ThreeBranchRule(m, n) ==
  LET winner == IF m > n THEN m ELSE n
      margin == IF m > n THEN m - n ELSE n - m
      memeIsWinner == m > n
  IN  CASE winner >= 80 -> memeIsWinner
        [] winner < 80 /\ winner < 60 -> TRUE
        [] winner >= 60 /\ winner < 80 /\ margin < 30 -> TRUE
        [] winner >= 60 /\ winner < 80 /\ margin >= 30 -> memeIsWinner

StartsLoad(c) == numLoads' = numLoads + 1 /\ load'[c] # load[c]
\* the step is the return (normal or by throwing) of the loadModel() call of c
EndsLoad(c) == LoadInFlight(c) /\ load'[c].pc \in {"returned", "threw"}

(***************************************************************************)
(* C3: a loadModel() call made while a handle is set returns at once: it   *)
(* makes no pipeline() call, leaves the handle as it is and the status at  *)
(* ready.  So after a successful load no later call adds an acquisition:   *)
(* the number of acquisitions stays the one that produced the handle.      *)
(***************************************************************************)
C3_EarlyReturn ==
  \A c \in LoadCallers :
    StartsLoad(c) /\ classifier # NoHandle =>
      /\ acquisitions' = acquisitions
      /\ classifier' = classifier
      /\ modelStatus = "ready" /\ modelStatus' = "ready"
      /\ load'[c].pc = "returned"
      /\ load'[c].acquired = 0

C3_NoSecondAcquisition ==
  classifier # NoHandle => acquisitions = classifier.id

C3_LoadIdempotent == []C3_NoSecondAcquisition /\ [][C3_EarlyReturn]_vars

\* two calls in sequence, the first successful with webgpu: one acquisition
C3_Witness ==
  /\ numLoads = 2
  /\ load[1].pc = "returned" /\ load[1].log = <<"return">>
  /\ load[1].handleAtStart = Handle("webgpu", 1)
  /\ classifier = Handle("webgpu", 1)
  /\ modelStatus = "ready"
  /\ acquisitions = 1

(***************************************************************************)
(* C4: a loadModel() call that starts with no handle sets the status to    *)
(* downloading and then tries webgpu; it tries wasm exactly when webgpu    *)
(* failed; it tries each device at most once; and when either attempt      *)
(* succeeds it stores the handle of that attempt, sets the status to ready *)
(* and returns normally.                                                   *)
(***************************************************************************)
LogWebgpu == <<"downloading", "try webgpu">>
LogWasm == LogWebgpu \o <<"webgpu failed", "try wasm">>
LogStored == <<"store", "ready", "return">>

C4_Order ==
  \A c \in LoadCallers :
    load[c].handleAtStart = NoHandle =>
      /\ load[c].pc = "idle" => load[c].log = <<>>
      /\ load[c].pc = "webgpu" => load[c].log = LogWebgpu
      /\ load[c].pc = "wasm" => load[c].log = LogWasm
      /\ load[c].pc = "returned" =>
           load[c].log \in {LogWebgpu \o LogStored, LogWasm \o LogStored}
      /\ load[c].pc = "threw" =>
           /\ SubSeq(load[c].log, 1, Len(LogWasm)) = LogWasm
           /\ Len(SelectSeq(load[c].log, LAMBDA e : e = "store")) = 0

C4_Steps ==
  \A c \in LoadCallers :
    /\ StartsLoad(c) /\ classifier = NoHandle =>
         /\ modelStatus' = "downloading"
         /\ load'[c].pc = "webgpu"
         /\ acquisitions' = acquisitions + 1
         /\ classifier' = NoHandle
    /\ load[c].pc = "webgpu" /\ load'[c].pc = "wasm" =>
         acquisitions' = acquisitions + 1
    /\ EndsLoad(c) /\ load'[c].pc = "returned" =>
         /\ classifier' = Handle(load[c].pc, load[c].acquired)
         /\ classifier' # classifier
         /\ modelStatus' = "ready"
         /\ acquisitions' = acquisitions
    /\ load[c].pc = "wasm" => load'[c].pc # "webgpu"

C4_LoadFallback == []C4_Order /\ [][C4_Steps]_vars

\* webgpu failed, wasm succeeded: the wasm handle is stored, status ready
C4_Witness ==
  /\ load[1].pc = "returned"
  /\ load[1].log = LogWasm \o LogStored
  /\ classifier = Handle("wasm", 2)
  /\ modelStatus = "ready"
  /\ acquisitions = 2

(***************************************************************************)
(* C5: a loadModel() call throws if and only if both its webgpu attempt    *)
(* and its wasm attempt failed; when it throws, the status is error and    *)
(* the handle is unset.                                                    *)
(***************************************************************************)
BothFailed(c) ==
  /\ Len(SelectSeq(load[c].log, LAMBDA e : e = "webgpu failed")) = 1
  /\ Len(SelectSeq(load[c].log, LAMBDA e : e = "wasm failed")) = 1

C5_ThrowsIffBothFailed ==
  \A c \in LoadCallers :
    /\ load[c].pc = "threw" <=> BothFailed(c)
    /\ load[c].pc = "threw" /\ load[c].call = numLoads =>
         modelStatus = "error" /\ classifier = NoHandle

C5_OnThrow ==
  \A c \in LoadCallers :
    EndsLoad(c) /\ load'[c].pc = "threw" =>
      /\ load[c].pc = "wasm"
      /\ modelStatus' = "error"
      /\ classifier' = NoHandle

C5_LoadFails == []C5_ThrowsIffBothFailed /\ [][C5_OnThrow]_vars

\* the second call fails too: both devices failed twice, four acquisitions
C5_Witness ==
  /\ numLoads = 2
  /\ load[1].pc = "threw" /\ load[1].call = 2
  /\ modelStatus = "error"
  /\ classifier = NoHandle
  /\ acquisitions = 4

(***************************************************************************)
(* C6: a classifyImage() call made while no handle is set throws the       *)
(* model-not-loaded error, makes no inference call and returns no result   *)
(* (no safe default), whether the status is loading, downloading or error. *)
(***************************************************************************)
C6_NotLoadedThrows ==
  single.pc # "idle" /\ single.handle = NoHandle =>
    /\ single.pc = "threw"
    /\ single.error = "model not loaded"
    /\ single.inferCalls = 0
    /\ single.raw = NoRaw
    /\ single.result = NoResult

\* called after a load that failed on both devices
C6_Witness ==
  /\ single.pc = "threw"
  /\ single.error = "model not loaded"
  /\ modelStatus = "error"
  /\ classifier = NoHandle

(***************************************************************************)
(* C7, as the claim states it: a classifyImageBatch() call with an empty   *)
(* input returns an empty sequence and makes no inference call.            *)
(***************************************************************************)
C7_EmptyBatchReturnsEmpty ==
  batch.pc # "idle" /\ batch.imageUrls = <<>> =>
    /\ batch.pc = "returned"
    /\ batch.results = <<>>
    /\ batch.inferCalls = 0

(***************************************************************************)
(* C7, amended: a classifyImageBatch() call with an empty input makes no   *)
(* inference call; it returns an empty sequence when a handle is set, and  *)
(* throws the model-not-loaded error when none is.                         *)
(***************************************************************************)
C7_EmptyBatch ==
  batch.pc # "idle" /\ batch.imageUrls = <<>> =>
    /\ batch.inferCalls = 0
    /\ batch.slots = <<>>
    /\ batch.results = <<>>
    /\ batch.handle # NoHandle => batch.pc = "returned" /\ batch.error = ""
    /\ batch.handle = NoHandle =>
         batch.pc = "threw" /\ batch.error = "model not loaded"

C7_Witness ==
  /\ batch.pc = "returned"
  /\ batch.imageUrls = <<>>
  /\ batch.handle # NoHandle
  /\ batch.results = <<>>

(***************************************************************************)
(* C8: a classifyImageBatch() call made while no handle is set throws the  *)
(* model-not-loaded error before any inference call, and returns no        *)
(* results (no safe defaults), whatever its input.                         *)
(***************************************************************************)
C8_BatchNotLoadedThrows ==
  batch.pc # "idle" /\ batch.handle = NoHandle =>
    /\ batch.pc = "threw"
    /\ batch.error = "model not loaded"
    /\ batch.inferCalls = 0
    /\ batch.slots = <<>>
    /\ batch.results = <<>>

C8_Witness ==
  /\ batch.pc = "threw"
  /\ batch.imageUrls = <<"a.png", "b.png">>
  /\ batch.handle = NoHandle
  /\ batch.inferCalls = 0

(***************************************************************************)
(* C9: with the handle set, classifyImageBatch() on n inputs returns n     *)
(* results and result i is the classification of input i, in whatever      *)
(* order the n inference calls settled.                                    *)
(***************************************************************************)
IsPermutation(q, n) ==
  Len(q) = n /\ \A i \in 1..n : \E j \in 1..n : q[j] = i

C9_BatchOrder ==
  batch.pc = "returned" /\ batch.handle # NoHandle =>
    LET n == Len(batch.imageUrls) IN
    /\ Len(batch.results) = n
    /\ batch.inferCalls = n
    /\ n > 0 => IsPermutation(batch.settled, n)
    /\ \A i \in 1..n :
         /\ batch.slots[i].imageUrl = batch.imageUrls[i]
         /\ batch.results[i] =
              classifyImageSettle(batch.slots[i].raw,
                                  batch.slots[i].result.inferenceTimeMs).result

\* the second call settled first, and the two results differ
C9_Witness ==
  /\ batch.pc = "returned"
  /\ batch.imageUrls = <<"a.png", "b.png">>
  /\ batch.settled = <<2, 1>>
  /\ batch.results = <<Result(TRUE, 82, 12), safeDefault(5)>>

(***************************************************************************)
(* C10: with the handle set, a batch in which some inference calls throw   *)
(* or resolve to malformed output returns normally: the slots that took    *)
(* the safe default are exactly those of the failed calls (value           *)
(* isMeme = false, confidence = 0), and every other slot holds the         *)
(* decision computed from its own raw scores.                              *)
(***************************************************************************)
C10_BatchIsolation ==
  /\ batch.pc = "threw" => batch.handle = NoHandle
  /\ batch.pc = "returned" /\ batch.handle # NoHandle =>
       /\ Len(batch.results) = Len(batch.slots)
       /\ \A i \in 1..Len(batch.slots) :
            LET raw == batch.slots[i].raw
                r == batch.results[i]
            IN  /\ batch.slots[i].path \in {"caught", "invalid"} <=> SoftFailure(raw)
                /\ SoftFailure(raw) => r.isMeme = FALSE /\ r.confidence = 0
                /\ ~SoftFailure(raw) =>
                     /\ batch.slots[i].path = "decided"
                     /\ r.isMeme = ThreeBranchRule(resolvedMemeScore(raw.items),
                                                   resolvedNotMemeScore(raw.items))
                     /\ r.confidence = resolvedMemeScore(raw.items)

\* the first call threw, the second was decided from its own scores
C10_Witness ==
  /\ batch.pc = "returned"
  /\ Len(batch.slots) = 2
  /\ batch.slots[1].raw = RawThrows
  /\ batch.slots[2].raw = RawArray(<<Pair(LabelMeme, 82), Pair(LabelNotMeme, 18)>>)
  /\ batch.results = <<safeDefault(5), Result(TRUE, 82, 12)>>

(***************************************************************************)
(* C11: the confidence returned is the score of the meme class, exactly,   *)
(* in each of the three branches and whichever class wins, also when       *)
(* isMeme is true although the not-meme class has the higher score.        *)
(***************************************************************************)
C11_ConfidenceIsMemeScore ==
  dOut # NoDecision =>
    /\ dRaw[1].label = LabelMeme
    /\ dRaw[2].label = LabelNotMeme
    /\ dOut.confidence = dRaw[1].score
    /\ dOut.confidence \in ScoreGrid

\* not-meme has the higher score, isMeme is true, confidence is the meme score
C11_Witness ==
  /\ dRaw = TwoClass(45, 55)
  /\ dOut = [isMeme |-> TRUE, confidence |-> 45]

(***************************************************************************)
(* C19: the decision never overrides a meme winner: memeScore >            *)
(* notMemeScore gives isMeme = true.  isMeme = false only when             *)
(* notMemeScore >= memeScore and notMemeScore >= 0.6, and, when            *)
(* notMemeScore < 0.8, only when the margin is at least 0.3.               *)
(***************************************************************************)
C19_MemeWinnerKept ==
  dOut # NoDecision =>
    LET m == dRaw[1].score
        n == dRaw[2].score
    IN  /\ m > n => dOut.isMeme = TRUE
        /\ dOut.isMeme = FALSE =>
             /\ n >= m
             /\ n >= 60
             /\ n < 80 => n - m >= 30
        /\ (n >= m /\ n >= 60 /\ (n < 80 => n - m >= 30)) => dOut.isMeme = FALSE

\* not-meme wins with 0.7 and a margin of exactly 0.3
C19_Witness ==
  /\ dRaw = TwoClass(40, 70)
  /\ dOut = [isMeme |-> FALSE, confidence |-> 40]

(***************************************************************************)
(* C12: when the raw result lacks the meme class, the not-meme class or    *)
(* both, the missing score is 0.0 and the decision is still returned by    *)
(* the three-branch rule.  A label with "meme" and without "not" is the    *)
(* meme class; a label with both "meme" and "not" is the not-meme class    *)
(* only; the first element of a class gives its score.                     *)
(***************************************************************************)
ClassOfLabel(e) ==
  IF e.kind # "pair" THEN "none"
  ELSE CASE e.label = LabelMeme -> "meme"
         [] e.label = LabelMemeCaps -> "meme"
         [] e.label = LabelNotMeme -> "not-meme"
         [] e.label = LabelNotUnderscoreMeme -> "not-meme"
         [] OTHER -> "none"

ScoreOfClass(raw, class) ==
  IF ClassOfLabel(raw[1]) = class THEN raw[1].score
  ELSE IF Len(raw) > 1 /\ ClassOfLabel(raw[2]) = class THEN raw[2].score
  ELSE 0

C12_MissingClassIsZero ==
  dOut # NoDecision =>
    LET m == ScoreOfClass(dRaw, "meme")
        n == ScoreOfClass(dRaw, "not-meme")
    IN  /\ dOut.isMeme \in BOOLEAN
        /\ dOut.isMeme = ThreeBranchRule(m, n)
        /\ dOut.confidence = m

\* only the not-meme class is present, written "Not_Meme": the meme score is 0
C12_Witness ==
  /\ dRaw = <<Pair(LabelNotUnderscoreMeme, 79)>>
  /\ dOut = [isMeme |-> FALSE, confidence |-> 0]

(***************************************************************************)
(* C13: the (isMeme, confidence) part of a result is a function of that    *)
(* image's raw scores only.  Every decided result reachable in any run,    *)
(* whatever loads and classifications came before it, whichever handle     *)
(* served it and whatever the other slots of its batch hold, is the value  *)
(* at its own (memeScore, notMemeScore) of one fixed function; so two      *)
(* decided results with equal scores are equal, within a batch and across  *)
(* runs.                                                                   *)
(***************************************************************************)
DecisionOf(r) == [isMeme |-> r.isMeme, confidence |-> r.confidence]

ScoresOf(raw) ==
  <<ScoreOfClass(raw.items, "meme"), ScoreOfClass(raw.items, "not-meme")>>

FunctionOfScores(sc) ==
  [isMeme |-> ThreeBranchRule(sc[1], sc[2]), confidence |-> sc[1]]

\* the decided calls of the state: the single call and the slots of the batch
DecidedCalls ==
  (IF single.pc = "returned" /\ single.path = "decided" THEN {single} ELSE {})
  \cup { batch.slots[i] : i \in { j \in 1..Len(batch.slots) :
                                     /\ batch.slots[j].pc = "returned"
                                     /\ batch.slots[j].path = "decided" } }

C13_DecisionFunctionOfScores ==
  /\ \A c \in DecidedCalls : DecisionOf(c.result) = FunctionOfScores(ScoresOf(c.raw))
  /\ \A c, d \in DecidedCalls :
       ScoresOf(c.raw) = ScoresOf(d.raw) => DecisionOf(c.result) = DecisionOf(d.result)
  /\ batch.pc = "returned" =>
       \A i \in 1..Len(batch.slots) :
         batch.slots[i].path = "decided" =>
           DecisionOf(batch.results[i]) = FunctionOfScores(ScoresOf(batch.slots[i].raw))

\* a batch served by the wasm handle of the second load, whose other slot
\* failed: the slot with scores (0, 100) is decided (false, 0)
C13_Witness ==
  /\ batch.pc = "returned"
  /\ batch.handle.device = "wasm"
  /\ numLoads >= 2
  /\ Len(batch.slots) = 2
  /\ batch.slots[1].raw = RawThrows
  /\ batch.slots[2].raw = RawArray(<<Pair(LabelNotMeme, 100)>>)
  /\ DecisionOf(batch.results[2]) = [isMeme |-> FALSE, confidence |-> 0]

(***************************************************************************)
(* C16: only loadModel changes the shared state.  Every step that is not   *)
(* a step of a loadModel call (getModelStatus, isModelReady, classifyImage *)
(* and classifyImageBatch entering, settling and returning, whether with a *)
(* decision, a safe default or the model-not-loaded error) leaves the      *)
(* handle and the status as they were, and the two reads return the        *)
(* current values; with non-overlapping loads a status of ready stays      *)
(* ready in every later step.                                              *)
(***************************************************************************)
LoadStep == load' # load

C16_Frame ==
  /\ ~LoadStep => classifier' = classifier /\ modelStatus' = modelStatus
  /\ observed' # observed /\ observed'.call = "getModelStatus" =>
       observed'.status = modelStatus
  /\ observed' # observed /\ observed'.call = "isModelReady" =>
       observed'.ready = (classifier # NoHandle /\ modelStatus = "ready")
  /\ modelStatus = "ready" => modelStatus' = "ready" /\ classifier' = classifier

C16_OnlyLoadChangesState == [][C16_Frame]_vars

\* after a load that succeeded and one that returned early: a batch with a
\* failed slot has returned, the state is still ready
C16_Witness ==
  /\ modelStatus = "ready"
  /\ classifier # NoHandle
  /\ load[SerialCaller].call = 2
  /\ load[SerialCaller].pc = "returned"
  /\ batch.pc = "returned"
  /\ Len(batch.slots) = 2
  /\ batch.slots[1].path = "caught"
  /\ batch.slots[2].path = "decided"

(***************************************************************************)
(* C17: with non-overlapping loadModel calls, each of which may succeed or *)
(* fail, in every state in which no load is in flight the handle is set    *)
(* exactly when the status is ready; hence isModelReady() is true exactly  *)
(* when classifyImage would not throw the model-not-loaded error.          *)
(***************************************************************************)
C17_HandleIffReady ==
  NoLoadInFlight =>
    /\ classifier # NoHandle <=> modelStatus = "ready"
    /\ \A img \in Images :
         isModelReady <=> classifyImageEnter(img).pc # "threw"
    /\ observed.call = "isModelReady" /\ observed.ready => classifier # NoHandle

\* the first load failed on both backends, the second stored the wasm
\* handle; isModelReady() has returned true
C17_Witness ==
  /\ NoLoadInFlight
  /\ load[SerialCaller].call = 2
  /\ acquisitions = 4
  /\ classifier = Handle("wasm", 4)
  /\ modelStatus = "ready"
  /\ observed = [call |-> "isModelReady", status |-> "", ready |-> TRUE]

(***************************************************************************)
(* C15: once a handle is stored it is never cleared and never replaced by  *)
(* a different handle, also when a second loadModel call starts while the  *)
(* first call's acquisition is in flight.                                  *)
(***************************************************************************)
C15_HandleNeverReplaced == [][classifier # NoHandle => classifier' = classifier]_vars

(***************************************************************************)
(* C18: when a loadModel call started while another call's acquisition was *)
(* in flight and no handle was set, every state in which all calls have    *)
(* returned or thrown has status = error only with the handle unset, and   *)
(* the handle set only with status = ready.                                *)
(***************************************************************************)
LoadsOverlapped ==
  \E c \in LoadCallers : load[c].overlaps /\ load[c].handleAtStart = NoHandle

AllLoadsLeft == \A c \in LoadCallers : load[c].pc \in {"returned", "threw"}

C18_OverlapKeepsInvariant ==
  LoadsOverlapped /\ AllLoadsLeft =>
    /\ modelStatus = "error" => classifier = NoHandle
    /\ classifier # NoHandle => modelStatus = "ready"

(***************************************************************************)
(* C14: in the page, a single image whose classification fails while the   *)
(* model is ready (its inference call throws or resolves to malformed      *)
(* output) ends with its entry in the error status.                        *)
(***************************************************************************)
InList(f) == \E i \in 1..Len(entries) : entries[i].id = f

EntryOf(f) == entries[CHOOSE i \in 1..Len(entries) : entries[i].id = f]

C14_FailedImageShowsError ==
  \A f \in Files :
    /\ proc[f].pc = "done"
    /\ proc[f].ready
    /\ SoftFailure(proc[f].call.raw)
    /\ InList(f)
    => EntryOf(f).status = "error"

(***************************************************************************)
(* C20: every entry of the list is created in the loading status; once the *)
(* inference call of its file has settled the entry, while it is in the    *)
(* list, is completed or error, and an entry in one of these two statuses  *)
(* never changes again; a file processed while the model is not ready gets *)
(* the error status without an inference call; only a processFile call     *)
(* that starts puts an entry into the list, so an entry cleared while its  *)
(* classification is in flight does not come back; and, every inference    *)
(* call settling, a loading entry eventually is completed, error or        *)
(* cleared.                                                                *)
(***************************************************************************)
FinalStatus == {"completed", "error"}

Loading(f) == InList(f) /\ EntryOf(f).status = "loading"

Finished(f) == InList(f) => EntryOf(f).status \in FinalStatus

C20_Inv ==
  /\ \A i, j \in 1..Len(entries) : entries[i].id = entries[j].id => i = j
  /\ \A f \in Files :
       /\ InList(f) => proc[f].pc # "idle"
       /\ proc[f].pc # "idle" => proc[f].created = "loading"
       /\ proc[f].pc = "awaiting" /\ InList(f) => EntryOf(f).status = "loading"
       /\ proc[f].pc = "done" /\ InList(f) => EntryOf(f).status \in FinalStatus
       /\ proc[f].pc # "idle" /\ ~proc[f].ready =>
            /\ proc[f].pc = "done"
            /\ proc[f].call.inferCalls = 0
            /\ InList(f) => /\ EntryOf(f).status = "error"
                            /\ EntryOf(f).error = "neural network not initialized"

C20_Step ==
  \A f \in Files :
    /\ proc[f].pc # "idle" => proc'[f].pc # "idle"
    /\ InList(f)' /\ ~InList(f) => proc[f].pc = "idle" /\ entries'[1].id = f
    /\ InList(f) /\ EntryOf(f).status \in FinalStatus /\ InList(f)' =>
         EntryOf(f)' = EntryOf(f)

C20_EntryLifecycle ==
  /\ []C20_Inv
  /\ [][C20_Step]_vars
  /\ \A f \in Files : Loading(f) ~> (Finished(f) /\ proc[f].pc = "done")

\* the entry of f1 was cleared while its classification was in flight, the
\* classification has finished since, and the list holds only the entry of f2
C20_Witness ==
  /\ proc["f1"].pc = "done"
  /\ proc["f1"].call.path = "decided"
  /\ ~InList("f1")
  /\ Len(entries) = 1
  /\ entries[1].id = "f2"
  /\ entries[1].status = "completed"

====
